---- MODULE Spec2Model ----
(***************************************************************************)
(* Model of rust/scx_utils/src/bpf_builder.rs: BpfBuilder, the build.rs    *)
(* helper that resolves the BPF compiler flags from the environment,       *)
(* installs the bundled headers, and drives bindgen, the BPF compiler, the *)
(* libbpf linker and the skeleton generator.                               *)
(*                                                                         *)
(* A Rust String is a sequence of one-character strings.  The external     *)
(* tools are not modelled; each of their invocations is recorded, in       *)
(* program order, as an event carrying the arguments the builder passed,   *)
(* and each may fail.                                                      *)
(***************************************************************************)
EXTENDS Integers, Sequences, FiniteSets, TLC

VARIABLES env, state, clang, cflags, out_dir, sources, intf_input_output,
          skel_input_name, newlog, entry, out, result, runs

vars == <<env, state, clang, cflags, out_dir, sources, intf_input_output,
          skel_input_name, newlog, entry, out, result, runs>>

\* Number of build entry-point calls one build script makes; a
\* configuration call is followed by one.
MaxRuns == 1

(***************************************************************************)
(* Strings                                                                 *)
(***************************************************************************)

\* char::is_whitespace, restricted to the characters that occur.
WhiteSpace == {" ", "\t", "\n"}

\* The characters that occur, in byte order (String's Ord is bytewise).
AsciiOrder ==
  <<"\t", "\n", " ", "-", ".", "/", "2", "6", "8", "I", "O", "_",
    "a", "b", "c", "d", "e", "f", "g", "h", "i", "k", "l", "m", "n",
    "o", "p", "r", "s", "t", "u", "v", "x">>

Ord ==
  [c \in {AsciiOrder[i] : i \in 1..Len(AsciiOrder)} |->
     CHOOSE i \in 1..Len(AsciiOrder) : AsciiOrder[i] = c]

\* a < b for Strings.
StrLess(a, b) ==
  \E k \in 1..(Len(b)) :
     /\ \A j \in 1..(k - 1) : j <= Len(a) /\ a[j] = b[j]
     /\ \/ k = Len(a) + 1
        \/ k <= Len(a) /\ Ord[a[k]] < Ord[b[k]]

\* BTreeSet<String>::iter(): the elements in ascending order.
RECURSIVE iter(_)
iter(S) ==
  IF S = {} THEN <<>>
  ELSE LET m == CHOOSE x \in S : \A y \in S \ {x} : StrLess(x, y)
       IN  <<m>> \o iter(S \ {m})

\* Variant of split_whitespace that cuts at " " only, as str::split(' ')
\* followed by dropping the empty pieces would.
RECURSIVE SplitSpaces(_, _, _)
SplitSpaces(s, i, cur) ==
  IF i > Len(s)
  THEN IF cur = <<>> THEN <<>> ELSE <<cur>>
  ELSE IF s[i] = " "
       THEN IF cur = <<>>
            THEN SplitSpaces(s, i + 1, <<>>)
            ELSE <<cur>> \o SplitSpaces(s, i + 1, <<>>)
       ELSE SplitSpaces(s, i + 1, Append(cur, s[i]))

split_on_spaces(s) == SplitSpaces(s, 1, <<>>)

\* str::split_whitespace: scan left to right, cutting at whitespace runs.
RECURSIVE SplitFrom(_, _, _)
SplitFrom(s, i, cur) ==
  IF i > Len(s)
  THEN IF cur = <<>> THEN <<>> ELSE <<cur>>
  ELSE IF s[i] \in WhiteSpace
       THEN IF cur = <<>>
            THEN SplitFrom(s, i + 1, <<>>)
            ELSE <<cur>> \o SplitFrom(s, i + 1, <<>>)
       ELSE SplitFrom(s, i + 1, Append(cur, s[i]))

split_whitespace(s) == SplitFrom(s, 1, <<>>)

\* True iff pat occurs in s at position i.
OccursAt(s, pat, i) ==
  /\ i + Len(pat) - 1 <= Len(s)
  /\ \A j \in 1..Len(pat) : s[i + j - 1] = pat[j]

\* str::replace(from, to): non-overlapping matches, left to right.
RECURSIVE ReplaceFrom(_, _, _, _)
ReplaceFrom(s, from, to, i) ==
  IF i > Len(s) THEN <<>>
  ELSE IF OccursAt(s, from, i)
       THEN to \o ReplaceFrom(s, from, to, i + Len(from))
       ELSE <<s[i]>> \o ReplaceFrom(s, from, to, i + 1)

replace(s, from, to) == ReplaceFrom(s, from, to, 1)

\* Path::join: an absolute argument replaces the base.
join(p, x) ==
  IF x # <<>> /\ x[1] = "/" THEN x
  ELSE IF p = <<>> \/ p[Len(p)] = "/" THEN p \o x
  ELSE p \o <<"/">> \o x

\* Index of the last "/" of p, 0 if none.
LastSlash(p) ==
  IF \E i \in 1..Len(p) : p[i] = "/"
  THEN CHOOSE i \in 1..Len(p) : p[i] = "/" /\ \A j \in (i + 1)..Len(p) : p[j] # "/"
  ELSE 0

\* Path::parent, for paths without trailing or repeated separators:
\* None for "" and "/", "" for a bare file name.
parent(p) ==
  IF p = <<>> \/ p = <<"/">> THEN [some |-> FALSE, val |-> <<>>]
  ELSE IF LastSlash(p) = 0 THEN [some |-> TRUE, val |-> <<>>]
  ELSE IF LastSlash(p) = 1 THEN [some |-> TRUE, val |-> <<"/">>]
  ELSE [some |-> TRUE, val |-> SubSeq(p, 1, LastSlash(p) - 1)]

(***************************************************************************)
(* Literals                                                                *)
(***************************************************************************)

BpfHDir   == <<"s", "c", "x", "_", "u", "t", "i", "l", "s", "-", "b", "p", "f", "_", "h">>
DashI     == <<"-", "I">>
ArchInfix == <<"/", "a", "r", "c", "h", "/">>
CompatSfx == <<"/", "b", "p", "f", "-", "c", "o", "m", "p", "a", "t">>
DotBpfC   == <<".", "b", "p", "f", ".", "c">>
DotBpfO   == <<".", "b", "p", "f", ".", "o">>
SkelSfx   == <<"_", "s", "k", "e", "l", ".", "r", "s">>
TargetArg == <<"-", "t", "a", "r", "g", "e", "t">>
BpfArg    == <<"b", "p", "f">>

RerunEnvVars ==
  <<"BPF_CLANG", "BPF_CFLAGS", "BPF_BASE_CFLAGS",
    "BPF_EXTRA_CFLAGS_PRE_INCL", "BPF_EXTRA_CFLAGS_POST_INCL">>

\* ClangInfo: what the probe reports for a supported architecture.
KernelTarget  == <<"x", "8", "6">>
BaselineFlags == << <<"-", "g">>, <<"-", "O", "2">> >>

(***************************************************************************)
(* Environment and inputs                                                  *)
(***************************************************************************)

Unset  == [set |-> FALSE, val |-> <<>>]
Set(v) == [set |-> TRUE, val |-> v]
None   == [some |-> FALSE, a |-> <<>>, b |-> <<>>]
Some(x, y) == [some |-> TRUE, a |-> x, b |-> y]

OutDirVals == {Unset, Set(<<"/", "o">>)}
\* " -O2\t-Ix  "
CflagsVals == {Unset, Set(<<" ", "-", "O", "2", "\t", "-", "I", "x", " ", " ">>)}
\* "" and "-g"
BaseVals   == {Unset, Set(<<>>), Set(<<"-", "g">>)}
\* " -Ia \n-Ib"
PreVals    == {Unset, Set(<<" ", "-", "I", "a", " ", "\n", "-", "I", "b">>)}
\* "-Ic\t"
PostVals   == {Unset, Set(<<"-", "I", "c", "\t">>)}

EnvStates ==
  [OUT_DIR : OutDirVals, BPF_CFLAGS : CflagsVals, BPF_BASE_CFLAGS : BaseVals,
   BPF_EXTRA_CFLAGS_PRE_INCL : PreVals, BPF_EXTRA_CFLAGS_POST_INCL : PostVals]

\* Outcomes of ClangInfo::new: failure, or a clang whose architecture
\* identifier is known, so that kernel_target() and
\* determine_base_cflags() succeed.
ProbeOutcomes == {"fail", "ok"}

Ev(op, var, src, obj, dst, args) ==
  [op |-> op, var |-> var, src |-> src, obj |-> obj, dst |-> dst, args |-> args]

(***************************************************************************)
(* BpfBuilder::new                                                         *)
(***************************************************************************)

\* The three bundled include flags, lines 231-237.
BundledIncludes(bpf_h) ==
  << DashI \o bpf_h \o ArchInfix \o KernelTarget,
     DashI \o bpf_h,
     DashI \o bpf_h \o CompatSfx >>

\* Variant of determine_cflags that appends the pre-include flags after
\* the bundled include flags.
determine_cflags_PreAfterIncl(e, bpf_h) ==
  (IF e.BPF_BASE_CFLAGS.set
   THEN split_whitespace(e.BPF_BASE_CFLAGS.val)
   ELSE BaselineFlags)
  \o BundledIncludes(bpf_h)
  \o (IF e.BPF_EXTRA_CFLAGS_PRE_INCL.set
      THEN split_whitespace(e.BPF_EXTRA_CFLAGS_PRE_INCL.val)
      ELSE <<>>)
  \o (IF e.BPF_EXTRA_CFLAGS_POST_INCL.set
      THEN split_whitespace(e.BPF_EXTRA_CFLAGS_POST_INCL.val)
      ELSE <<>>)

\* The flag list determine_cflags returns on success.
determine_cflags(e, bpf_h) ==
  (IF e.BPF_BASE_CFLAGS.set
   THEN split_whitespace(e.BPF_BASE_CFLAGS.val)
   ELSE BaselineFlags)
  \o (IF e.BPF_EXTRA_CFLAGS_PRE_INCL.set
      THEN split_whitespace(e.BPF_EXTRA_CFLAGS_PRE_INCL.val)
      ELSE <<>>)
  \o BundledIncludes(bpf_h)
  \o (IF e.BPF_EXTRA_CFLAGS_POST_INCL.set
      THEN split_whitespace(e.BPF_EXTRA_CFLAGS_POST_INCL.val)
      ELSE <<>>)

\* Variant of install_bpf_h that unpacks into the directory above dest.
install_bpf_h_Above(dest) ==
  Ev("install_bpf_h", "", <<>>, <<>>, parent(dest).val, <<>>)

\* install_bpf_h: unpack the embedded archive at dest.
install_bpf_h(dest) == Ev("install_bpf_h", "", <<>>, <<>>, dest, <<>>)

\* The run of new(): the events in program order, how it ended and the
\* flags it stored.
NewRun(e, probe, installOk, baseOk) ==
  LET dir    == e.OUT_DIR.val
      bpf_h  == join(dir, BpfHDir)
      probed == <<Ev("ClangInfo::new", "", <<>>, <<>>, <<>>, <<>>)>>
      inst   == probed \o <<install_bpf_h(bpf_h)>>
      based  == IF e.BPF_BASE_CFLAGS.set THEN inst
                ELSE inst \o <<Ev("determine_base_cflags", "", <<>>, <<>>, <<>>, <<>>)>>
      Done(fl, evs) ==
        [res |-> "ok", cflags |-> fl,
         ev |-> evs \o <<Ev("scx_utils:clang", "", <<>>, <<>>, <<>>, fl)>>]
      Fail(r, evs) == [res |-> r, cflags |-> <<>>, ev |-> evs]
  IN
    IF ~e.OUT_DIR.set THEN Fail("err", <<>>)
    ELSE IF probe = "fail" THEN Fail("err", probed)
    ELSE IF e.BPF_CFLAGS.set
         THEN Done(split_whitespace(e.BPF_CFLAGS.val), probed)
    ELSE IF ~installOk THEN Fail("err", inst)
    ELSE IF ~e.BPF_BASE_CFLAGS.set /\ ~baseOk THEN Fail("err", based)
    ELSE Done(determine_cflags(e, bpf_h), based)

new ==
  /\ state = "start"
  /\ \E probe \in ProbeOutcomes, installOk \in BOOLEAN, baseOk \in BOOLEAN :
       LET r == NewRun(env, probe, installOk, baseOk) IN
         /\ newlog' = r.ev
         /\ state' = IF r.res = "ok" THEN "ready" ELSE r.res
         /\ cflags' = r.cflags
         /\ clang' = IF r.res = "ok" THEN probe ELSE "none"
         /\ out_dir' = IF r.res = "ok" THEN env.OUT_DIR.val ELSE <<>>
  /\ UNCHANGED <<env, sources, intf_input_output, skel_input_name,
                 entry, out, result, runs>>

(***************************************************************************)
(* Configuration                                                           *)
(***************************************************************************)

\* "s/i.h"
IntfInputs  == { <<"s", "/", "i", ".", "h">> }
\* "i.rs"
IntfOutputs == { <<"i", ".", "r", "s">> }
\* "s/m.bpf.c", "l/u.bpf.c", "m.bpf.c"
SourceVals  == { <<"s", "/", "m">> \o DotBpfC, <<"l", "/", "u">> \o DotBpfC,
                 <<"m">> \o DotBpfC }
\* "bpf", "m.bpf.c"
SkelNames   == { <<"b", "p", "f">>, <<"m">> \o DotBpfC }

\* The files on disk, relative to the build script's working directory.
Files ==
  SourceVals \cup IntfInputs \cup
  { <<"s", "/", "x", ".", "c">>, <<"s", "/", "d", "/", "n", ".", "h">>,
    <<"s", "/", "r", ".", "r", "s">>, <<"l", "/", "u", ".", "h">>,
    <<"k", ".", "h">>, <<"/", "v", ".", "h">> }

\* The run observed by entry/out/result is the last one made on the
\* current configuration; a configuration call starts a fresh observation.
Unobserved == /\ entry' = "none" /\ out' = <<>> /\ result' = "none"

enable_intf ==
  /\ state = "ready"
  /\ runs < MaxRuns
  /\ \E input \in IntfInputs, output \in IntfOutputs :
       intf_input_output' = Some(input, output)
  /\ Unobserved
  /\ UNCHANGED <<env, state, clang, cflags, out_dir, sources, skel_input_name,
                 newlog, runs>>

enable_skel ==
  /\ state = "ready"
  /\ runs < MaxRuns
  /\ \E input \in SourceVals, name \in SkelNames :
       /\ skel_input_name' = Some(input, name)
       /\ sources' = sources \cup {input}
  /\ Unobserved
  /\ UNCHANGED <<env, state, clang, cflags, out_dir, intf_input_output,
                 newlog, runs>>

add_source ==
  /\ state = "ready"
  /\ runs < MaxRuns
  /\ \E input \in SourceVals : sources' = sources \cup {input}
  /\ Unobserved
  /\ UNCHANGED <<env, state, clang, cflags, out_dir, intf_input_output,
                 skel_input_name, newlog, runs>>

(***************************************************************************)
(* Stages                                                                  *)
(***************************************************************************)

input_insert_deps(io) == IF io.some THEN {io.a} ELSE {}

\* The lines bindgen's CargoCallbacks print while generate() runs, before
\* any parsing: one for the environment variable bindgen reads its extra
\* arguments from, one for the input header.
CargoCallbacks(input) ==
  << Ev("rerun-if-env-changed", "BINDGEN_EXTRA_CLANG_ARGS", <<>>, <<>>, <<>>, <<>>),
     Ev("rerun-if-changed", "", input, <<>>, <<>>, <<>>) >>

\* bindgen with the builder's flags chained with "-target bpf".
bindgen_bpf_intf(io, fl, dir, ok) ==
  IF ~io.some THEN [ok |-> TRUE, ev |-> <<>>]
  ELSE [ok |-> ok,
        ev |-> <<Ev("bindgen", "", io.a, <<>>, <<>>, fl \o <<TargetArg, BpfArg>>)>>
               \o CargoCallbacks(io.a)
               \o (IF ok
                   THEN <<Ev("write_to_file", "", <<>>, <<>>, join(dir, io.b), <<>>)>>
                   ELSE <<>>)]

\* glob("{dir}/*.[hc]"): `*` does not cross a separator.
glob(dir) ==
  LET pre == dir \o <<"/">> IN
  { p \in Files :
      /\ Len(p) >= Len(pre) + 2
      /\ SubSeq(p, 1, Len(pre)) = pre
      /\ \A j \in (Len(pre) + 1)..Len(p) : p[j] # "/"
      /\ p[Len(p) - 1] = "."
      /\ p[Len(p)] \in {"h", "c"} }

\* gen_bpf_skel once skel_input_name is known to be Some, lines 380-409.
SkelSome(sk, fl, dir, ok, warn, scanOk) ==
  LET obj       == join(dir, sk.b \o DotBpfO)
      skel_path == join(dir, sk.b \o SkelSfx)
      run  == <<Ev("build_and_generate", "", sk.a, obj, skel_path, fl)>>
      warned == run \o (IF warn
                        THEN <<Ev("cargo:warning", "", <<>>, <<>>, <<>>, <<>>)>>
                        ELSE <<>>)
      par  == parent(sk.a)
  IN  IF ~ok THEN [ok |-> FALSE, ev |-> run, deps |-> {}]
      ELSE IF ~par.some THEN [ok |-> FALSE, ev |-> warned, deps |-> {}]
      ELSE LET scan == warned \o <<Ev("glob", "", par.val, <<>>, <<>>, <<>>)>> IN
           IF ~scanOk THEN [ok |-> FALSE, ev |-> scan, deps |-> {}]
           ELSE [ok |-> TRUE, ev |-> scan, deps |-> glob(par.val)]

\* Variant of gen_bpf_skel without the early return on None.
gen_bpf_skel_NoGuard(sk, fl, dir, ok, warn, scanOk) ==
  SkelSome(sk, fl, dir, ok, warn, scanOk)

gen_bpf_skel(sk, fl, dir, ok, warn, scanOk) ==
  IF ~sk.some THEN [ok |-> TRUE, ev |-> <<>>, deps |-> {}]
  ELSE SkelSome(sk, fl, dir, ok, warn, scanOk)

\* The lines gen_cargo_reruns prints; dependencies = None prints as {}.
gen_cargo_reruns(deps, srcs) ==
  LET ds == iter(deps)
      ss == iter(srcs)
  IN  [i \in 1..Len(RerunEnvVars) |->
         Ev("rerun-if-env-changed", RerunEnvVars[i], <<>>, <<>>, <<>>, <<>>)]
      \o [i \in 1..Len(ds) |-> Ev("rerun-if-changed", "", ds[i], <<>>, <<>>, <<>>)]
      \o [i \in 1..Len(ss) |-> Ev("rerun-if-changed", "", ss[i], <<>>, <<>>, <<>>)]

(***************************************************************************)
(* BpfBuilder::build                                                       *)
(***************************************************************************)

\* Variant of BuildRun that drops the `?` after bindgen_bpf_intf.
BuildRun_KeepGoing(io, sk, srcs, fl, dir, okB, okS, warn, scanOk) ==
  LET deps0 == input_insert_deps(io)
      b == bindgen_bpf_intf(io, fl, dir, okB)
      s == gen_bpf_skel(sk, fl, dir, okS, warn, scanOk)
  IN  IF ~s.ok THEN [res |-> "err", ev |-> b.ev \o s.ev]
      ELSE [res |-> "ok",
            ev |-> b.ev \o s.ev \o gen_cargo_reruns(deps0 \cup s.deps, srcs)]

\* What an external step can do: succeed or fail if the run reaches it,
\* nothing to choose if the configuration rules it out.
Outcomes(reachable) == IF reachable THEN BOOLEAN ELSE {TRUE}

BuildRun(io, sk, srcs, fl, dir, okB, okS, warn, scanOk) ==
  LET deps0 == input_insert_deps(io)
      b == bindgen_bpf_intf(io, fl, dir, okB)
      s == gen_bpf_skel(sk, fl, dir, okS, warn, scanOk)
  IN  IF ~b.ok THEN [res |-> "err", ev |-> b.ev]
      ELSE IF ~s.ok THEN [res |-> "err", ev |-> b.ev \o s.ev]
      ELSE [res |-> "ok",
            ev |-> b.ev \o s.ev \o gen_cargo_reruns(deps0 \cup s.deps, srcs)]

build ==
  /\ state = "ready"
  /\ runs < MaxRuns
  /\ \E okB \in Outcomes(intf_input_output.some),
        okS \in Outcomes(skel_input_name.some),
        warn \in Outcomes(skel_input_name.some),
        scanOk \in Outcomes(skel_input_name.some) :
       LET r == BuildRun(intf_input_output, skel_input_name, sources, cflags,
                         out_dir, okB, okS, warn, scanOk) IN
         /\ out' = r.ev
         /\ result' = r.res
  /\ entry' = "build"
  /\ runs' = runs + 1
  /\ UNCHANGED <<env, state, clang, cflags, out_dir, sources,
                 intf_input_output, skel_input_name, newlog>>

(***************************************************************************)
(* BpfBuilder::compile_link_gen                                            *)
(***************************************************************************)

NoFail == [at |-> "none", k |-> 0]
\* The `?` of compile_link_gen that a run over srcs can reach.
FailPoints(sk, srcs) ==
  IF ~sk.some THEN {NoFail}
  ELSE {NoFail, [at |-> "Linker::new", k |-> 0], [at |-> "link", k |-> 0],
        [at |-> "generate", k |-> 0]}
       \cup [at : {"compile", "add_file"}, k : 1..Cardinality(srcs)]

\* Variant of LoopObj that names the per-source object after the program,
\* as gen_bpf_skel does.
LoopObj_AsLinkObj(dir, name) == join(dir, name \o DotBpfO)

\* The object every source of the loop is compiled to, line 344.
LoopObj(dir, name) == join(dir, replace(name, DotBpfC, DotBpfO))

\* The linked object, line 340.
LinkObj(dir, name) == join(dir, name \o DotBpfO)

\* The loop of lines 343-355 from the k-th source on.
RECURSIVE CompileLoop(_, _, _, _, _)
CompileLoop(files, k, obj, fl, fail) ==
  IF k > Len(files) THEN [ok |-> TRUE, ev |-> <<>>]
  ELSE LET c == Ev("compile", "", files[k], obj, <<>>, fl)
           a == Ev("add_file", "", <<>>, obj, <<>>, <<>>)
       IN  IF fail = [at |-> "compile", k |-> k]
           THEN [ok |-> FALSE, ev |-> <<c>>]
           ELSE IF fail = [at |-> "add_file", k |-> k]
           THEN [ok |-> FALSE, ev |-> <<c, a>>]
           ELSE LET rest == CompileLoop(files, k + 1, obj, fl, fail)
                IN  [ok |-> rest.ok, ev |-> <<c, a>> \o rest.ev]

CompileLinkGenRun(io, sk, srcs, fl, dir, fail, okB) ==
  IF ~sk.some THEN [res |-> "ok", ev |-> <<>>]
  ELSE
    LET linkobj == LinkObj(dir, sk.b)
        opened  == <<Ev("Linker::new", "", <<>>, <<>>, linkobj, <<>>)>>
        loop    == CompileLoop(iter(srcs), 1, LoopObj(dir, sk.b), fl, fail)
        linked  == opened \o loop.ev \o <<Ev("link", "", <<>>, <<>>, linkobj, <<>>)>>
        b       == bindgen_bpf_intf(io, fl, dir, okB)
        skel_path == join(dir, sk.b \o SkelSfx)
        gen     == linked \o b.ev \o <<Ev("generate", "", <<>>, linkobj, skel_path, fl)>>
    IN  IF fail.at = "Linker::new" THEN [res |-> "err", ev |-> opened]
        ELSE IF ~loop.ok THEN [res |-> "err", ev |-> opened \o loop.ev]
        ELSE IF fail.at = "link" THEN [res |-> "err", ev |-> linked]
        ELSE IF ~b.ok THEN [res |-> "err", ev |-> linked \o b.ev]
        ELSE IF fail.at = "generate" THEN [res |-> "err", ev |-> gen]
        ELSE [res |-> "ok", ev |-> gen \o gen_cargo_reruns({}, srcs)]

compile_link_gen ==
  /\ state = "ready"
  /\ runs < MaxRuns
  /\ \E fail \in FailPoints(skel_input_name, sources),
        okB \in Outcomes(intf_input_output.some /\ skel_input_name.some) :
       LET r == CompileLinkGenRun(intf_input_output, skel_input_name, sources,
                                  cflags, out_dir, fail, okB) IN
         /\ out' = r.ev
         /\ result' = r.res
  /\ entry' = "compile_link_gen"
  /\ runs' = runs + 1
  /\ UNCHANGED <<env, state, clang, cflags, out_dir, sources,
                 intf_input_output, skel_input_name, newlog>>

Init ==
  /\ env \in EnvStates
  /\ state = "start"
  /\ clang = "none"
  /\ cflags = <<>>
  /\ out_dir = <<>>
  /\ sources = {}
  /\ intf_input_output = None
  /\ skel_input_name = None
  /\ newlog = <<>>
  /\ entry = "none"
  /\ out = <<>>
  /\ result = "none"
  /\ runs = 0

Next ==
  \/ new
  \/ enable_intf
  \/ enable_skel
  \/ add_source
  \/ build
  \/ compile_link_gen

Spec == Init /\ [][Next]_vars

(***************************************************************************)
(* Properties                                                              *)
(***************************************************************************)

\* The maximal runs of non-whitespace characters of s, by position.
Starts(s) ==
  {i \in 1..Len(s) : s[i] \notin WhiteSpace /\ (i = 1 \/ s[i - 1] \in WhiteSpace)}

EndOf(s, i) ==
  CHOOSE j \in i..Len(s) :
    /\ \A k \in i..j : s[k] \notin WhiteSpace
    /\ j = Len(s) \/ s[j + 1] \in WhiteSpace

NthStart(s, n) ==
  CHOOSE i \in Starts(s) : Cardinality({j \in Starts(s) : j < i}) = n - 1

Tokens(s) ==
  [n \in 1..Cardinality(Starts(s)) |-> SubSeq(s, NthStart(s, n), EndOf(s, NthStart(s, n)))]

At(ops) == {i \in DOMAIN out : out[i].op \in ops}

RerunChanged == {out[i].src : i \in At({"rerun-if-changed"})}

CompileOps ==
  {"compile", "build_and_generate", "add_file", "Linker::new", "link", "generate"}

ToolOps == CompileOps \cup {"bindgen", "write_to_file"}

\* The files the recorded invocations were told to produce.
Written ==
  {out[i].dst : i \in At({"write_to_file", "build_and_generate", "generate", "Linker::new"})}
  \cup {out[i].obj : i \in At({"compile", "build_and_generate"})}

ExpBpfH == out_dir \o <<"/">> \o BpfHDir

ExpBundled ==
  << <<"-", "I">> \o ExpBpfH \o <<"/", "a", "r", "c", "h", "/", "x", "8", "6">>,
     <<"-", "I">> \o ExpBpfH,
     <<"-", "I">> \o ExpBpfH \o <<"/", "b", "p", "f", "-", "c", "o", "m", "p", "a", "t">> >>

ExpBase ==
  IF env.BPF_BASE_CFLAGS.set THEN Tokens(env.BPF_BASE_CFLAGS.val) ELSE BaselineFlags

ExpPre ==
  IF env.BPF_EXTRA_CFLAGS_PRE_INCL.set
  THEN Tokens(env.BPF_EXTRA_CFLAGS_PRE_INCL.val) ELSE <<>>

ExpPost ==
  IF env.BPF_EXTRA_CFLAGS_POST_INCL.set
  THEN Tokens(env.BPF_EXTRA_CFLAGS_POST_INCL.val) ELSE <<>>

ExpIntfOut == out_dir \o <<"/">> \o intf_input_output.b
ExpLinkObj == out_dir \o <<"/">> \o skel_input_name.b \o <<".", "b", "p", "f", ".", "o">>
ExpSkelOut == out_dir \o <<"/">> \o skel_input_name.b \o <<"_", "s", "k", "e", "l", ".", "r", "s">>

\* C1: with BPF_CFLAGS unset, the flags new() stores are the base flags
\* (the tokens of BPF_BASE_CFLAGS if set, else the clang baseline), then
\* the tokens of BPF_EXTRA_CFLAGS_PRE_INCL, then -I<bpf_h>/arch/<target>,
\* -I<bpf_h>, -I<bpf_h>/bpf-compat, then the tokens of
\* BPF_EXTRA_CFLAGS_POST_INCL.
C1_FlagOrder ==
  (state = "ready" /\ ~env.BPF_CFLAGS.set) =>
     LET n == Len(ExpBase) + Len(ExpPre) IN
       /\ cflags = ExpBase \o ExpPre \o ExpBundled \o ExpPost
       /\ \A i \in 1..Len(ExpPre) : cflags[Len(ExpBase) + i] = ExpPre[i]
       /\ SubSeq(cflags, n + 1, n + 3) = ExpBundled
       /\ \A i \in 1..Len(ExpPost) : cflags[n + 3 + i] = ExpPost[i]

C1_Witness ==
  /\ state = "ready"
  /\ ~env.BPF_CFLAGS.set
  /\ env.BPF_BASE_CFLAGS.set
  /\ Len(ExpPre) = 2
  /\ Len(ExpPost) = 1
  /\ Len(cflags) = Len(ExpBase) + 6

\* C2 as stated: with BPF_CFLAGS set, the stored flags are exactly its
\* tokens, and every later compiler, bindgen and skeleton-generator
\* invocation receives that same list.
C2_Original ==
  (state = "ready" /\ env.BPF_CFLAGS.set) =>
     /\ cflags = Tokens(env.BPF_CFLAGS.val)
     /\ \A i \in At({"compile", "build_and_generate", "generate", "bindgen"}) :
          out[i].args = Tokens(env.BPF_CFLAGS.val)

\* C2 amended: with BPF_CFLAGS set, the stored flags are exactly its
\* tokens whatever the other variables hold; the compiler and the skeleton
\* generator receive that list, and bindgen receives it followed by
\* "-target" "bpf".
C2_FullOverride ==
  (state = "ready" /\ env.BPF_CFLAGS.set) =>
     /\ cflags = Tokens(env.BPF_CFLAGS.val)
     /\ \A i \in At({"compile", "build_and_generate", "generate"}) :
          out[i].args = Tokens(env.BPF_CFLAGS.val)
     /\ \A i \in At({"bindgen"}) :
          out[i].args = Tokens(env.BPF_CFLAGS.val)
                          \o << <<"-", "t", "a", "r", "g", "e", "t">>, <<"b", "p", "f">> >>

C2_Witness ==
  /\ state = "ready"
  /\ env.BPF_CFLAGS.set
  /\ env.BPF_BASE_CFLAGS.set
  /\ env.BPF_EXTRA_CFLAGS_PRE_INCL.set
  /\ env.BPF_EXTRA_CFLAGS_POST_INCL.set
  /\ Len(cflags) = 2
  /\ At({"bindgen"}) # {}
  /\ At({"compile"}) # {}
  /\ At({"generate"}) # {}

\* The directory part of a path, with its trailing separator.
DirPrefix(p) == SubSeq(p, 1, LastSlash(p))

\* The *.h and *.c files that sit in the directory of s.
Siblings(s) ==
  {f \in Files :
     /\ DirPrefix(f) = DirPrefix(s)
     /\ Len(f) >= 2
     /\ f[Len(f) - 1] = "."
     /\ f[Len(f)] \in {"h", "c"}}

\* C3: after a successful build, the rerun-if-changed set holds every *.h
\* and *.c file in the directory of every registered source.
C3_DependencyCompleteness ==
  (entry = "build" /\ result = "ok") =>
     \A s \in sources : Siblings(s) \subseteq RerunChanged

\* C4: when more than one source is registered and a build succeeds, every
\* registered source was compiled and the objects were linked into
\* <out>/<name>.bpf.o before the skeleton was generated.
C4_AllSourcesLinked ==
  (entry # "none" /\ result = "ok" /\ skel_input_name.some
     /\ Cardinality(sources) > 1) =>
     /\ \A s \in sources :
          \E i \in At({"compile", "build_and_generate"}) : out[i].src = s
     /\ \E l \in At({"link"}) :
          /\ out[l].dst = ExpLinkObj
          /\ \A g \in At({"generate", "build_and_generate"}) : l < g

\* C5: build() with neither path enabled returns Ok and invokes no tool and
\* writes nothing, whatever sources are registered; with only enable_intf
\* it writes exactly <out>/<output> and compiles nothing.
C5_DisabledPaths ==
  entry = "build" =>
     /\ (~intf_input_output.some /\ ~skel_input_name.some) =>
           /\ result = "ok"
           /\ At(ToolOps) = {}
           /\ Written = {}
     /\ (intf_input_output.some /\ ~skel_input_name.some /\ result = "ok") =>
           /\ Written = {ExpIntfOut}
           /\ At(CompileOps) = {}

C5_Witness ==
  /\ entry = "build"
  /\ result = "ok"
  /\ ~intf_input_output.some
  /\ ~skel_input_name.some
  /\ Cardinality(sources) = 2

\* C6: every successful run of build or compile_link_gen prints the five
\* rerun-if-env-changed directives and a rerun-if-changed directive for
\* every registered source.
C6_RerunAlways ==
  (entry # "none" /\ result = "ok") =>
     /\ \A n \in 1..Len(RerunEnvVars) :
          \E i \in At({"rerun-if-env-changed"}) : out[i].var = RerunEnvVars[n]
     /\ sources \subseteq RerunChanged

\* C7 as stated: every successful new() installs the bundled headers into
\* <OUT_DIR>/scx_utils-bpf_h after the probe and before the flags are
\* resolved, also when BPF_CFLAGS is set.
C7_Original ==
  state = "ready" =>
     \E i, j, k \in DOMAIN newlog :
        /\ i < j /\ j < k
        /\ newlog[i].op = "ClangInfo::new"
        /\ newlog[j].op = "install_bpf_h" /\ newlog[j].dst = ExpBpfH
        /\ newlog[k].op = "scx_utils:clang"

\* C7 amended: a successful new() installs the bundled headers into
\* <OUT_DIR>/scx_utils-bpf_h exactly once, after the probe and before any
\* flag is derived, when BPF_CFLAGS is unset; when BPF_CFLAGS is set it
\* installs nothing.
C7_InstallUnlessOverride ==
  state = "ready" =>
     LET inst == {j \in DOMAIN newlog : newlog[j].op = "install_bpf_h"} IN
       /\ env.BPF_CFLAGS.set => inst = {}
       /\ ~env.BPF_CFLAGS.set =>
            /\ Cardinality(inst) = 1
            /\ \A j \in inst :
                 /\ newlog[j].dst = ExpBpfH
                 /\ \E i \in 1..(j - 1) : newlog[i].op = "ClangInfo::new"
                 /\ \A k \in DOMAIN newlog :
                      newlog[k].op \in {"determine_base_cflags", "scx_utils:clang"} => j < k
            /\ \E k \in DOMAIN newlog : newlog[k].op = "scx_utils:clang"

C7_Witness ==
  /\ state = "ready"
  /\ ~env.BPF_CFLAGS.set
  /\ ~env.BPF_BASE_CFLAGS.set
  /\ Len(newlog) = 4
  /\ newlog[2].op = "install_bpf_h"

\* C8: in build and in compile_link_gen, a successful run generates the
\* data-layout binding iff enable_intf was called and the skeleton binding
\* iff enable_skel was called.
C8_Independent ==
  (entry # "none" /\ result = "ok") =>
     /\ intf_input_output.some <=>
          \E i \in At({"write_to_file"}) : out[i].dst = ExpIntfOut
     /\ skel_input_name.some <=>
          \E i \in At({"generate", "build_and_generate"}) : out[i].dst = ExpSkelOut

\* The events of one bindgen invocation: the call and the lines its
\* callbacks print.
InBindgen(i) ==
  \E b \in At({"bindgen"}) : b <= i /\ i <= b + Len(CargoCallbacks(<<>>))

\* The stage of build() the i-th event belongs to: 1 data-layout binding,
\* 2 skeleton compile-and-generate, 3 dependency scan, 4 rerun emission.
Stage(i) ==
  CASE InBindgen(i) \/ out[i].op = "write_to_file" -> 1
    [] out[i].op \in {"build_and_generate", "cargo:warning"} -> 2
    [] out[i].op = "glob" -> 3
    [] OTHER -> 4

\* What C9 says apart from the rerun directives of a failed build: the
\* stages run in order, none twice, a failed data-layout binding stops the
\* build before any compilation, a failed skeleton stage fails the build,
\* and gen_cargo_reruns runs exactly in the builds that succeed.
C9_Stages ==
  /\ \A i, j \in DOMAIN out : i < j => Stage(i) <= Stage(j)
  /\ \A op \in {"bindgen", "write_to_file", "build_and_generate", "glob"} :
       Cardinality(At({op})) <= 1
  /\ (At({"bindgen"}) # {} /\ At({"write_to_file"}) = {}) =>
       /\ result = "err"
       /\ \A i \in DOMAIN out : Stage(i) = 1
  /\ (At({"build_and_generate"}) # {} /\ At({"glob"}) = {}) => result = "err"
  /\ result = "ok" <=> \E i \in DOMAIN out : Stage(i) = 4

ExpLoopObj ==
  IF skel_input_name.b = <<"m", ".", "b", "p", "f", ".", "c">>
  THEN out_dir \o <<"/", "m", ".", "b", "p", "f", ".", "o">>
  ELSE out_dir \o <<"/">> \o skel_input_name.b

\* C10: compile_link_gen compiles every source to the one path
\* <out>/<name with .bpf.c replaced by .bpf.o>, never the linked object's
\* path; adds it to the linker right after compiling it; visits the
\* sources in ascending order, once each; and links once, after all of
\* them and before the skeleton is generated from the linked object.
C10_CompileLoop ==
  (entry = "compile_link_gen" /\ skel_input_name.some) =>
     LET C == At({"compile"})
         A == At({"add_file"})
         L == At({"link"})
         G == At({"generate"})
     IN
       /\ \A i \in C :
            /\ out[i].obj = ExpLoopObj
            /\ out[i].obj # ExpLinkObj
            /\ out[i].src \in sources
            /\ i < Len(out) => out[i + 1].op = "add_file" /\ out[i + 1].obj = out[i].obj
            /\ i = Len(out) => result = "err"
       /\ \A i \in A : i > 1 /\ out[i - 1].op = "compile"
       /\ \A i, j \in C : i < j => StrLess(out[i].src, out[j].src)
       /\ Cardinality(L) <= 1
       /\ \A l \in L :
            /\ out[l].dst = ExpLinkObj
            /\ {out[i].src : i \in C} = sources
            /\ Cardinality(A) = Cardinality(sources)
            /\ \A i \in C \cup A : i < l
       /\ \A g \in G :
            /\ out[g].obj = ExpLinkObj
            /\ \E l \in L : l < g
       /\ result = "ok" => G # {}

C10_Witness ==
  /\ entry = "compile_link_gen"
  /\ result = "ok"
  /\ Cardinality(sources) = 3
  /\ skel_input_name.b = <<"m", ".", "b", "p", "f", ".", "c">>
  /\ Cardinality(At({"add_file"})) = 3
====
